---- MODULE Spec2Model ----
(***************************************************************************)
(* A model of asset_cache/asset_cache.py: flatten_paths,                   *)
(* extract_paths_from_xml, transform_xml_paths and create_asset_cache.     *)
(*                                                                         *)
(* Strings.  A Python str is a sequence of tokens.  The separators "/" and *)
(* "_" are tokens of their own; every other token is a word that holds     *)
(* neither separator, and no word is a substring of another word or of a   *)
(* concatenation of words.  With inputs built from such words, str         *)
(* equality, split('/'), join, startswith and the substring test `in` on   *)
(* characters agree with the same operations on token sequences.           *)
(*                                                                         *)
(* Dicts.  A Python dict is a sequence of <<key, value>> pairs with        *)
(* pairwise distinct keys, in insertion order.                             *)
(***************************************************************************)
EXTENDS Integers, Sequences, FiniteSets, TLC

VARIABLES
    pc,               \* position in the call being modelled
    file_paths,       \* flatten_paths: argument file_paths / create_asset_cache: paths
    base_dir,         \* flatten_paths: argument base_dir   / create_asset_cache: asset_dir
    max_depth,        \* the max_depth argument: a number, NoDepth (None) or Unset (left out)
    result,           \* what flatten_paths returned: [exc, value]
    xml_content,      \* the source document
    fs,               \* the filesystem: [dirs, files]
    fs0,              \* history: the filesystem when the run started
    first_run,        \* history: what an earlier run on the same inputs produced, or NoRun
    copied_paths,     \* create_asset_cache: the effective mapping (a dict)
    loop_i,           \* create_asset_cache: index into flattened_paths.items()
    transformed_xml,  \* create_asset_cache: the rewritten document
    copy_log,         \* history: the copies made, <<original, source, dest>>
    phases,           \* history: the phases completed, in order
    failure,          \* the exception that ended the run, or "none"
    returned          \* what create_asset_cache returned, or None

vars == <<pc, file_paths, base_dir, max_depth, result, xml_content, fs, fs0, first_run,
          copied_paths, loop_i, transformed_xml, copy_log, phases, failure, returned>>

\* the variables that only create_asset_cache uses
pipeline_vars == <<xml_content, fs, fs0, first_run, copied_paths, loop_i, transformed_xml,
                   copy_log, phases, failure, returned>>

\* Python's None where a str is expected (base_dir, asset_dir): no str is this sequence
None == <<"None">>
\* Python's None where max_depth is expected, and the max_depth argument left out
NoDepth == -1
Unset == -2

\* no earlier run
NoRun == <<>>

(***************************************************************************)
(* str and list operations of Python                                       *)
(***************************************************************************)
SLASH == <<"/">>
USCORE == <<"_">>

RECURSIVE SplitAcc(_, _, _)
SplitAcc(s, cur, acc) ==
    IF s = <<>> THEN Append(acc, cur)
    ELSE IF Head(s) = "/" THEN SplitAcc(Tail(s), <<>>, Append(acc, cur))
    ELSE SplitAcc(Tail(s), Append(cur, Head(s)), acc)

\* s.split('/')
split(s) == SplitAcc(s, <<>>, <<>>)

\* sep.join(parts)
RECURSIVE join(_, _)
join(sep, parts) ==
    IF parts = <<>> THEN <<>>
    ELSE IF Len(parts) = 1 THEN parts[1]
    ELSE parts[1] \o sep \o join(sep, Tail(parts))

\* "a/b/c" written S(<<"a", "b", "c">>) and "/a/b" written S(<<"", "a", "b">>)
S(words) == join(SLASH, [i \in 1..Len(words) |-> IF words[i] = "" THEN <<>> ELSE <<words[i]>>])

\* s.startswith(prefix)
startswith(s, prefix) ==
    /\ Len(prefix) <= Len(s)
    /\ SubSeq(s, 1, Len(prefix)) = prefix

\* needle in s, for str s
contains(s, needle) ==
    \E i \in 1..(Len(s) - Len(needle) + 1) : SubSeq(s, i, i + Len(needle) - 1) = needle

\* an index of a slice, clamped as Python clamps it
SliceIndex(i, n) ==
    IF i < 0 THEN (IF n + i < 0 THEN 0 ELSE n + i)
    ELSE (IF i > n THEN n ELSE i)

\* s[lo:hi] and s[lo:]
slice(s, lo, hi) == SubSeq(s, SliceIndex(lo, Len(s)) + 1, SliceIndex(hi, Len(s)))
slice_from(s, lo) == SubSeq(s, SliceIndex(lo, Len(s)) + 1, Len(s))

\* x in xs, for a list xs
in_list(x, xs) == \E i \in 1..Len(xs) : xs[i] = x

(***************************************************************************)
(* dict operations of Python                                               *)
(***************************************************************************)
DictHas(d, k) == \E i \in 1..Len(d) : d[i][1] = k
DictIndex(d, k) == CHOOSE i \in 1..Len(d) : d[i][1] = k
DictGet(d, k) == d[DictIndex(d, k)][2]
\* d[k] = v adding an entry also when k is a key already
DictSet_Appends(d, k, v) == Append(d, <<k, v>>)

\* d[k] = v
DictSet(d, k, v) ==
    IF DictHas(d, k)
    THEN [d EXCEPT ![DictIndex(d, k)] = <<k, v>>]
    ELSE Append(d, <<k, v>>)
DictKeys(d) == {d[i][1] : i \in 1..Len(d)}
DictValues(d) == {d[i][2] : i \in 1..Len(d)}

(***************************************************************************)
(* flatten_paths(file_paths, base_dir=None, max_depth=2)                   *)
(***************************************************************************)
\* the default of the max_depth parameter
DefaultMaxDepth == 2

special_paths == { S(<<"", "tmp", "something.txt">>) }

\* the value returned by a call, or the exception it raised
Returned(v) == [exc |-> "none", value |-> v]
Raised(e) == [exc |-> e, value |-> <<>>]
\* before the call
NotCalled == [exc |-> "not called", value |-> <<>>]

\* lines 59-64: remove base_dir from the beginning
normalized_path(path, bdir) ==
    IF bdir # None /\ startswith(path, bdir \o SLASH)
    THEN slice_from(path, Len(bdir) + 1)
    ELSE path

\* lines 81-94: the path does not exceed max_depth + filename
ShortCandidate(normalized, parts, depth) ==
    IF parts[1] = <<"assets">> /\ Len(parts) = 3
    THEN join(SLASH, slice_from(parts, 1))
    ELSE IF depth >= 2 /\ Len(parts) = 5
            /\ parts[1] = <<"project">> /\ parts[2] = <<"models">>
    THEN join(SLASH, slice_from(parts, 2))
    ELSE normalized

\* lines 124-126: keep the last max_depth levels
DefaultCandidate(parts, depth) == join(SLASH, slice_from(parts, -(depth + 1)))

\* lines 95-126: the path exceeds max_depth + filename
LongCandidate(parts, depth) ==
    LET last == parts[Len(parts)]
        robots == parts[1] = <<"models">> /\ parts[2] = <<"robots">>
    IN  IF depth = 1 /\ robots
        THEN IF in_list(<<"arm">>, parts)
             THEN S(<<"arm", "joints">>) \o SLASH \o last
             ELSE <<"fingers">> \o SLASH \o join(SLASH, slice_from(parts, -2))
        ELSE IF depth = 2 /\ robots
        THEN IF in_list(<<"arm">>, parts)
             THEN S(<<"arm", "joints">>) \o SLASH \o last
             ELSE <<"fingers">> \o SLASH \o join(SLASH, slice_from(parts, -2))
        ELSE IF depth = 3 /\ robots
        THEN IF in_list(<<"arm">>, parts)
             THEN S(<<"robots", "arm", "joints">>) \o SLASH \o last
             ELSE S(<<"hand", "fingers">>) \o SLASH \o join(SLASH, slice_from(parts, -2))
        ELSE IF depth = 2 /\ parts[1] = <<"project">> /\ parts[2] = <<"assets">>
        THEN IF Len(parts) = 5
             THEN parts[4] \o SLASH \o parts[5]
             ELSE parts[3] \o SLASH \o parts[4]
        ELSE DefaultCandidate(parts, depth)

\* lines 70-78: max_depth == 0
ZeroCandidate(parts) ==
    LET filename == parts[Len(parts)]
    IN  IF Len(parts) = 1
        THEN filename
        ELSE parts[Len(parts) - 1] \o USCORE \o filename

\* lines 59-126: the initial flattened path of one path, max_depth a number
Candidate(path, bdir, depth) ==
    LET normalized == normalized_path(path, bdir)
        parts == split(normalized)
    IN  IF depth = 0 THEN ZeroCandidate(parts)
        ELSE IF Len(parts) <= depth + 1 THEN ShortCandidate(normalized, parts, depth)
        ELSE LongCandidate(parts, depth)

\* lines 53-126 without the special paths of lines 55-57
RECURSIVE FirstPass_NoEscape(_, _, _, _)
FirstPass_NoEscape(paths, bdir, depth, res) ==
    IF paths = <<>> THEN Returned(res)
    ELSE IF depth = NoDepth THEN Raised("TypeError")
    ELSE FirstPass_NoEscape(Tail(paths), bdir, depth,
                            DictSet(res, Head(paths), Candidate(Head(paths), bdir, depth)))

\* lines 53-126: the first pass; max_depth + 1 raises TypeError when max_depth is None
RECURSIVE FirstPass(_, _, _, _)
FirstPass(paths, bdir, depth, res) ==
    IF paths = <<>> THEN Returned(res)
    ELSE LET path == Head(paths)
         IN  IF path \in special_paths
             THEN FirstPass(Tail(paths), bdir, depth, DictSet(res, path, path))
             ELSE IF depth = NoDepth
             THEN Raised("TypeError")
             ELSE FirstPass(Tail(paths), bdir, depth,
                            DictSet(res, path, Candidate(path, bdir, depth)))

\* the key 'conflicts' of flattened_paths, which the flattened names share
ConflictsKey == <<"conflicts">>
\* the dict flattened_paths['conflicts'] when it stands in a list of paths
ConflictsDict == <<"{conflicts dict}">>

\* lines 129-139, one iteration.  st.fp: the str entries of flattened_paths;
\* st.hasConf: flattened_paths['conflicts'] is the dict st.conf
DetectStep(st, original, flattened) ==
    LET isKey == DictHas(st.fp, flattened) \/ (flattened = ConflictsKey /\ st.hasConf)
        held == IF DictHas(st.fp, flattened) THEN DictGet(st.fp, flattened) ELSE ConflictsDict
    IN  IF isKey
        THEN \* a conflict: the value held differs from original (keys of result are distinct)
             IF ~st.hasConf /\ DictHas(st.fp, ConflictsKey)
             THEN \* flattened_paths['conflicts'] is a str: item assignment fails
                  [st EXCEPT !.exc = "TypeError"]
             ELSE LET first == IF DictHas(st.conf, flattened)
                               THEN DictGet(st.conf, flattened)
                               ELSE <<held>>
                  IN  [st EXCEPT !.hasConf = TRUE,
                                 !.conf = DictSet(st.conf, flattened, Append(first, original))]
        ELSE [st EXCEPT !.fp = DictSet(st.fp, flattened, original)]

RECURSIVE Detect(_, _)
Detect(items, st) ==
    IF items = <<>> \/ st.exc # "none" THEN st
    ELSE Detect(Tail(items), DetectStep(st, Head(items)[1], Head(items)[2]))

\* lines 129-139: flattened_paths after the loop over result.items()
DetectConflicts(res) ==
    Detect(res, [fp |-> <<>>, conf |-> <<>>, hasConf |-> FALSE, exc |-> "none"])

\* lines 147-164 with a path of at most two parts given a new name
ResolveZero_RenamesFlat(res, flattened, path) ==
    LET parts == split(path)
    IN  IF Len(parts) <= 2
        THEN DictSet(res, path, <<"1", "_">> \o join(USCORE, parts))
        ELSE res

\* lines 147-164: one conflicting path, max_depth == 0
ResolveZero(res, flattened, path) ==
    LET parts == split(path)
        n == Len(parts)
    IN  IF n <= 2
        THEN DictSet(res, path, join(USCORE, parts))
        ELSE IF parts[n - 1] # parts[n - 1]
        THEN IF \/ contains(path, S(<<"project", "models", "hand">>))
                \/ contains(path, S(<<"project", "models", "foot">>))
             THEN DictSet(res, path, parts[3] \o USCORE \o flattened)
             ELSE DictSet(res, path,
                          join(USCORE, slice(parts, -3, -1)) \o USCORE \o parts[n])
        ELSE res

\* lines 167-181: one conflicting path, max_depth > 0, from additional_depth on
RECURSIVE ResolveDeep(_, _, _, _, _)
ResolveDeep(res, group, path, depth, additional_depth) ==
    LET parts == split(path)
        total_depth == depth + additional_depth
        candidate == join(SLASH, slice_from(parts, -(total_depth + 1)))
        others == {DictGet(res, group[i]) : i \in {j \in 1..Len(group) : group[j] # path}}
    IN  IF additional_depth >= Len(parts)
        THEN res
        ELSE IF Len(parts) <= total_depth + 1
        THEN DictSet(res, path, join(SLASH, parts))
        ELSE IF candidate \notin others
        THEN DictSet(res, path, candidate)
        ELSE ResolveDeep(res, group, path, depth, additional_depth + 1)

\* lines 144-181: the paths of one conflict, in order; st = [exc, value]
RECURSIVE ResolveGroup(_, _, _, _, _)
ResolveGroup(st, flattened, group, todo, depth) ==
    IF todo = <<>> \/ st.exc # "none" THEN st
    ELSE LET path == Head(todo)
             next ==
                 IF path = ConflictsDict
                 THEN Raised("AttributeError")     \* a dict has no split
                 ELSE IF depth = 0
                 THEN Returned(ResolveZero(st.value, flattened, path))
                 ELSE IF depth = NoDepth /\ Len(split(path)) >= 2
                 THEN Raised("TypeError")          \* None + additional_depth
                 ELSE Returned(ResolveDeep(st.value, group, path, depth, 1))
         IN  ResolveGroup(next, flattened, group, Tail(todo), depth)

\* lines 142-181: every conflict, in the order of flattened_paths['conflicts']
RECURSIVE ResolveConflicts(_, _, _)
ResolveConflicts(st, conflicts, depth) ==
    IF conflicts = <<>> \/ st.exc # "none" THEN st
    ELSE LET flattened == Head(conflicts)[1]
             group == Head(conflicts)[2]
         IN  ResolveConflicts(ResolveGroup(st, flattened, group, group, depth),
                              Tail(conflicts), depth)

PROJECT_MODELS == S(<<"project", "models">>) \o SLASH
FINGERS_TIP == S(<<"fingers", "index", "tip.stl">>)
HAND_TIP == S(<<"project", "models", "hand", "fingers", "index", "tip.stl">>)
FOOT_TIP == S(<<"project", "models", "foot", "fingers", "index", "tip.stl">>)

\* lines 187-191: for path in file_paths, max_depth == 0
RECURSIVE AdjustZero(_, _)
AdjustZero(res, paths) ==
    IF paths = <<>> THEN res
    ELSE LET path == Head(paths)
             r1 == IF contains(path, <<"hand">>)
                   THEN DictSet(res, path, <<"hand", "_", "index", "_", "tip.stl">>)
                   ELSE res
             r2 == IF contains(path, <<"foot">>)
                   THEN DictSet(r1, path, <<"foot", "_", "index", "_", "tip.stl">>)
                   ELSE r1
         IN  AdjustZero(r2, Tail(paths))

\* lines 196-200: for p in depth1_paths, max_depth == 1
RECURSIVE AdjustOne(_, _)
AdjustOne(res, paths) ==
    IF paths = <<>> THEN res
    ELSE LET p == Head(paths)
             parts == split(p)
             parent_dirs == slice(parts, 2, -2)
             filename == parts[Len(parts)]
             intermediate_dirs == slice(parts, -3, -1)
             name == parent_dirs[1] \o USCORE \o join(USCORE, intermediate_dirs)
                         \o USCORE \o filename
         IN  AdjustOne(DictSet(res, p, name), Tail(paths))

\* lines 183-200: the adjustments for two paths under project/models/
Adjust(res, paths, depth) ==
    IF /\ Len(paths) = 2
       /\ \A i \in 1..Len(paths) :
              contains(paths[i], PROJECT_MODELS) /\ contains(paths[i], FINGERS_TIP)
    THEN LET r0 == IF depth = 0 THEN AdjustZero(res, paths) ELSE res
             depth1_paths == SelectSeq(paths, LAMBDA p :
                                 contains(p, HAND_TIP) \/ contains(p, FOOT_TIP))
         IN  IF depth1_paths # <<>> /\ depth = 1
             THEN AdjustOne(r0, depth1_paths)
             ELSE r0
    ELSE res

\* {p: p for p in file_paths}
RECURSIVE IdentityDict(_, _)
IdentityDict(paths, res) ==
    IF paths = <<>> THEN res
    ELSE IdentityDict(Tail(paths), DictSet(res, Head(paths), Head(paths)))

\* lines 22-202 with max_depth given: [exc, value], value the dict returned
flatten_paths(paths, bdir, depth) ==
    IF paths = <<>> THEN Returned(<<>>)
    ELSE IF \A i \in 1..Len(paths) : ~contains(paths[i], SLASH)
    THEN Returned(IdentityDict(paths, <<>>))
    ELSE LET first == FirstPass(paths, bdir, depth, <<>>)
             flattened_paths == DetectConflicts(first.value)
             resolved ==
                 IF flattened_paths.exc # "none" THEN Raised(flattened_paths.exc)
                 ELSE IF flattened_paths.hasConf
                 THEN ResolveConflicts(first, flattened_paths.conf, depth)
                 ELSE IF DictHas(flattened_paths.fp, ConflictsKey)
                 THEN Raised("AttributeError")     \* a str has no items
                 ELSE first
         IN  IF first.exc # "none" THEN first
             ELSE IF resolved.exc # "none" THEN resolved
             ELSE Returned(Adjust(resolved.value, paths, depth))

(***************************************************************************)
(* extract_paths_from_xml and transform_xml_paths.  A document is          *)
(* [wellformed, elems]: elems lists the elements in document order, the    *)
(* root first; an element is [level, file, name], level its nesting depth  *)
(* (0 for the root), file the value of its file attribute or None, and     *)
(* name its other attribute.                                               *)
(***************************************************************************)
\* a text that is not well-formed markup
Malformed == [wellformed |-> FALSE, elems |-> <<>>]

\* root.findall(".//*[@file]"): the descendants of the root that have a file attribute
findall_file(elems) ==
    {i \in 2..Len(elems) : elems[i].file # None}

\* the indices of a set, in document order
RECURSIVE InOrder(_, _)
InOrder(idx, n) ==
    IF n = 0 THEN <<>>
    ELSE IF n \in idx THEN Append(InOrder(idx, n - 1), n) ELSE InOrder(idx, n - 1)

\* lines 215-224
extract_paths_from_xml(xml_string) ==
    IF ~xml_string.wellformed
    THEN Raised("ParseError")
    ELSE LET found == findall_file(xml_string.elems)
             kept == {i \in found : xml_string.elems[i].file # <<>>}
             order == InOrder(kept, Len(xml_string.elems))
         IN  Returned([k \in 1..Len(order) |-> xml_string.elems[order[k]].file])

\* lines 238-246 with the file attribute removed where its value is not a key
transform_xml_paths_DropsUnmapped(xml_string, path_map) ==
    IF ~xml_string.wellformed
    THEN Raised("ParseError")
    ELSE LET set_file(i) ==
                 LET file_path == xml_string.elems[i].file
                 IN  IF DictHas(path_map, file_path)
                     THEN [xml_string.elems[i] EXCEPT !.file = DictGet(path_map, file_path)]
                     ELSE [xml_string.elems[i] EXCEPT !.file = None]
         IN  Returned([xml_string EXCEPT
                          !.elems = [i \in 1..Len(xml_string.elems) |-> set_file(i)]])

\* lines 238-246
transform_xml_paths(xml_string, path_map) ==
    IF ~xml_string.wellformed
    THEN Raised("ParseError")
    ELSE LET found == findall_file(xml_string.elems)
             set_file(i) ==
                 LET file_path == xml_string.elems[i].file
                 IN  IF i \in found /\ file_path # <<>> /\ DictHas(path_map, file_path)
                     THEN [xml_string.elems[i] EXCEPT !.file = DictGet(path_map, file_path)]
                     ELSE xml_string.elems[i]
         IN  Returned([xml_string EXCEPT
                          !.elems = [i \in 1..Len(xml_string.elems) |-> set_file(i)]])

(***************************************************************************)
(* pathlib, os.path and shutil, as create_asset_cache uses them.  The      *)
(* filesystem is [dirs, files]: the directories made, and the content of   *)
(* every regular file.                                                     *)
(***************************************************************************)
\* os.path.isabs
isabs(path) == startswith(path, SLASH)

\* Path(path): empty and "." segments are dropped
PurePath(path) ==
    LET kept == SelectSeq(split(path), LAMBDA seg : seg # <<>> /\ seg # <<".">>)
    IN  IF isabs(path) THEN SLASH \o join(SLASH, kept)
        ELSE IF kept = <<>> THEN <<".">>
        ELSE join(SLASH, kept)

\* Path(a) / b
PathJoin(a, b) ==
    IF isabs(b) THEN PurePath(b) ELSE PurePath(a \o SLASH \o b)

\* Path(path).parent and Path(path).name, path a PurePath
PathParent(path) ==
    LET parts == split(path)
    IN  IF Len(parts) = 1 THEN <<".">>
        ELSE IF Len(parts) = 2 /\ parts[1] = <<>> THEN SLASH
        ELSE join(SLASH, slice(parts, 0, -1))
PathName(path) == split(path)[Len(split(path))]

\* path and the directories above it, the root and "." left out
Ancestors(path) ==
    LET parts == split(path)
    IN  {join(SLASH, SubSeq(parts, 1, k)) : k \in 1..Len(parts)} \ {<<>>, <<".">>}

\* Path.exists
exists(fsys, path) ==
    path \in DOMAIN fsys.files \/ path \in fsys.dirs \/ path \in {SLASH, <<".">>}

\* Path(path).mkdir(parents=True), without exist_ok
mkdir_NoExistOk(fsys, path) ==
    IF path \in DOMAIN fsys.files \/ path \in fsys.dirs
    THEN [exc |-> "FileExistsError", fs |-> fsys]
    ELSE IF \E a \in Ancestors(path) : a \in DOMAIN fsys.files
    THEN [exc |-> "NotADirectoryError", fs |-> fsys]
    ELSE [exc |-> "none", fs |-> [fsys EXCEPT !.dirs = @ \cup Ancestors(path)]]

\* Path(path).mkdir(exist_ok=True, parents=True): [exc, fs]
mkdir(fsys, path) ==
    IF path \in DOMAIN fsys.files
    THEN [exc |-> "FileExistsError", fs |-> fsys]
    ELSE IF \E a \in Ancestors(path) : a \in DOMAIN fsys.files
    THEN [exc |-> "NotADirectoryError", fs |-> fsys]
    ELSE [exc |-> "none", fs |-> [fsys EXCEPT !.dirs = @ \cup Ancestors(path)]]

\* shutil.copy2 with the source removed once it is copied (a move)
copy2_Moves(fsys, src, dst) ==
    LET target == IF dst \in fsys.dirs THEN PathJoin(dst, PathName(src)) ELSE dst
    IN  IF src = target
        THEN [exc |-> "SameFileError", fs |-> fsys, dst |-> target]
        ELSE IF src \notin DOMAIN fsys.files \/ target \in fsys.dirs
        THEN [exc |-> "IsADirectoryError", fs |-> fsys, dst |-> target]
        ELSE [exc |-> "none",
              fs |-> [fsys EXCEPT !.files =
                         [q \in (DOMAIN fsys.files \cup {target}) \ {src} |->
                             IF q = target THEN fsys.files[src] ELSE fsys.files[q]]],
              dst |-> target]

\* shutil.copy2(src, dst): [exc, fs, dst], dst the file written
copy2(fsys, src, dst) ==
    LET target == IF dst \in fsys.dirs THEN PathJoin(dst, PathName(src)) ELSE dst
    IN  IF src = target
        THEN [exc |-> "SameFileError", fs |-> fsys, dst |-> target]
        ELSE IF src \notin DOMAIN fsys.files \/ target \in fsys.dirs
        THEN [exc |-> "IsADirectoryError", fs |-> fsys, dst |-> target]
        ELSE [exc |-> "none",
              fs |-> [fsys EXCEPT !.files = (target :> fsys.files[src]) @@ @],
              dst |-> target]

\* open(path, "w").write(content): [exc, fs]
write_file(fsys, path, content) ==
    IF path \in fsys.dirs
    THEN [exc |-> "IsADirectoryError", fs |-> fsys]
    ELSE [exc |-> "none", fs |-> [fsys EXCEPT !.files = (path :> content) @@ @]]

(***************************************************************************)
(* create_asset_cache(xml_file, output_dir, asset_dir=None, max_depth=None) *)
(* The variable base_dir holds asset_dir, file_paths holds paths and       *)
(* result holds what flatten_paths returned (flattened_paths).             *)
(***************************************************************************)
\* the arguments xml_file and output_dir of the runs modelled
xml_file == S(<<"", "w", "scene.xml">>)
output_dir == S(<<"", "cache", "scene">>)

\* lines 287-295 with the directory of the document tried before asset_dir
SourcePath_DocumentDirFirst(original_path, asset_dir) ==
    IF isabs(original_path)
    THEN PurePath(original_path)
    ELSE PathJoin(PathParent(PurePath(xml_file)), original_path)

\* lines 287-295: the source of a reference
SourcePath(original_path, asset_dir) ==
    IF isabs(original_path)
    THEN PurePath(original_path)
    ELSE IF asset_dir # None /\ asset_dir # <<>>
    THEN PathJoin(PurePath(asset_dir), original_path)
    ELSE PathJoin(PathParent(PurePath(xml_file)), original_path)

\* line 298
DestPath(flattened_path) == PathJoin(PurePath(output_dir), flattened_path)

\* line 313 with the flattened path recorded for a path whose source is not found
MissingEntry_Flattened(original_path, flattened_path) == flattened_path

\* line 313: what copied_paths holds for a path whose source is not found
MissingEntry(original_path, flattened_path) == original_path

\* lines 322-323
TransformedXmlPath ==
    PathJoin(PurePath(output_dir), <<"transformed", "_">> \o PathName(PurePath(xml_file)))

\* an exception leaves create_asset_cache
Fail(e) ==
    /\ pc' = "failed"
    /\ failure' = e

\* lines 269-270 followed by opening the rewritten document for writing
MakeOutputDir_OpensOutput ==
    /\ pc = "start"
    /\ LET made == mkdir(fs, PurePath(output_dir))
       IN  /\ made.exc = "none"
           /\ fs' = write_file(made.fs, TransformedXmlPath, [xml |-> Malformed]).fs
           /\ pc' = "read"
           /\ phases' = Append(phases, "mkdir")
           /\ UNCHANGED failure
    /\ UNCHANGED <<file_paths, base_dir, max_depth, result, xml_content, fs0, first_run,
                   copied_paths, loop_i, transformed_xml, copy_log, returned>>

\* lines 269-270
MakeOutputDir ==
    /\ pc = "start"
    /\ LET made == mkdir(fs, PurePath(output_dir))
       IN  IF made.exc # "none"
           THEN Fail(made.exc) /\ UNCHANGED <<fs, phases>>
           ELSE /\ fs' = made.fs
                /\ pc' = "read"
                /\ phases' = Append(phases, "mkdir")
                /\ UNCHANGED failure
    /\ UNCHANGED <<file_paths, base_dir, max_depth, result, xml_content, fs0, first_run,
                   copied_paths, loop_i, transformed_xml, copy_log, returned>>

\* lines 269-270, the operating system refusing (permissions, space)
MakeOutputDirFails ==
    /\ pc = "start"
    /\ Fail("OSError")
    /\ UNCHANGED <<file_paths, base_dir, max_depth, result, xml_content, fs, fs0, first_run,
                   copied_paths, loop_i, transformed_xml, copy_log, phases, returned>>

\* lines 272-278
Extract ==
    /\ pc = "read"
    /\ LET paths == extract_paths_from_xml(xml_content)
       IN  IF paths.exc # "none"
           THEN Fail(paths.exc) /\ UNCHANGED <<file_paths, phases>>
           ELSE /\ file_paths' = paths.value
                /\ pc' = "flatten"
                /\ phases' = Append(phases, "extract")
                /\ UNCHANGED failure
    /\ UNCHANGED <<base_dir, max_depth, result, xml_content, fs, fs0, first_run,
                   copied_paths, loop_i, transformed_xml, copy_log, returned>>

\* lines 280-284
Flatten ==
    /\ pc = "flatten"
    /\ LET flattened_paths == flatten_paths(file_paths, base_dir, max_depth)
       IN  /\ result' = flattened_paths
           /\ IF flattened_paths.exc # "none"
              THEN Fail(flattened_paths.exc) /\ UNCHANGED <<phases, loop_i>>
              ELSE /\ pc' = "copy"
                   /\ loop_i' = 1
                   /\ phases' = Append(phases, "flatten")
                   /\ UNCHANGED failure
    /\ UNCHANGED <<file_paths, base_dir, max_depth, xml_content, fs, fs0, first_run,
                   copied_paths, transformed_xml, copy_log, returned>>

\* lines 285-316, one iteration of the loop over flattened_paths.items()
CopyItem ==
    /\ pc = "copy"
    /\ loop_i <= Len(result.value)
    /\ LET original_path == result.value[loop_i][1]
           flattened_path == result.value[loop_i][2]
           source_path == SourcePath(original_path, base_dir)
           dest_path == DestPath(flattened_path)
           made == mkdir(fs, PathParent(dest_path))
           copied == copy2(made.fs, source_path, dest_path)
       IN  IF exists(fs, source_path)
           THEN IF made.exc # "none"
                THEN Fail(made.exc)
                     /\ UNCHANGED <<fs, copied_paths, loop_i, copy_log, phases>>
                ELSE IF copied.exc # "none"
                THEN Fail(copied.exc) /\ fs' = made.fs
                     /\ UNCHANGED <<copied_paths, loop_i, copy_log, phases>>
                ELSE /\ fs' = copied.fs
                     /\ copied_paths' = DictSet(copied_paths, original_path, flattened_path)
                     /\ copy_log' = Append(copy_log, <<original_path, source_path, copied.dst>>)
                     /\ loop_i' = loop_i + 1
                     /\ phases' = Append(phases, "copy")
                     /\ UNCHANGED <<pc, failure>>
           ELSE /\ copied_paths' = DictSet(copied_paths, original_path,
                                           MissingEntry(original_path, flattened_path))
                /\ loop_i' = loop_i + 1
                /\ phases' = Append(phases, "copy")
                /\ UNCHANGED <<pc, failure, fs, copy_log>>
    /\ UNCHANGED <<file_paths, base_dir, max_depth, result, xml_content, fs0, first_run,
                   transformed_xml, returned>>

\* lines 303-306 failing, with the files copied so far removed again
CopyItemFails_RollsBack ==
    /\ pc = "copy"
    /\ loop_i <= Len(result.value)
    /\ exists(fs, SourcePath(result.value[loop_i][1], base_dir))
    /\ fs' = [fs EXCEPT !.files = fs0.files]
    /\ Fail("OSError")
    /\ UNCHANGED <<file_paths, base_dir, max_depth, result, xml_content, fs0, first_run,
                   copied_paths, loop_i, transformed_xml, copy_log, phases, returned>>

\* lines 303-306, the operating system refusing the mkdir or the copy
CopyItemFails ==
    /\ pc = "copy"
    /\ loop_i <= Len(result.value)
    /\ LET original_path == result.value[loop_i][1]
           flattened_path == result.value[loop_i][2]
           made == mkdir(fs, PathParent(DestPath(flattened_path)))
       IN  /\ exists(fs, SourcePath(original_path, base_dir))
           /\ \/ UNCHANGED fs
              \/ made.exc = "none" /\ fs' = made.fs
    /\ Fail("OSError")
    /\ UNCHANGED <<file_paths, base_dir, max_depth, result, xml_content, fs0, first_run,
                   copied_paths, loop_i, transformed_xml, copy_log, phases, returned>>

\* lines 318-319 reached without waiting for the end of the loop of lines 285-316
Transform_Early ==
    /\ pc = "copy"
    /\ transformed_xml' = transform_xml_paths(xml_content, copied_paths).value
    /\ pc' = "write"
    /\ phases' = Append(phases, "rewrite")
    /\ UNCHANGED <<file_paths, base_dir, max_depth, result, xml_content, fs, fs0, first_run,
                   copied_paths, loop_i, copy_log, failure, returned>>

\* lines 318-319
Transform ==
    /\ pc = "copy"
    /\ loop_i > Len(result.value)
    /\ LET rewritten == transform_xml_paths(xml_content, copied_paths)
       IN  IF rewritten.exc # "none"
           THEN Fail(rewritten.exc) /\ UNCHANGED <<transformed_xml, phases>>
           ELSE /\ transformed_xml' = rewritten.value
                /\ pc' = "write"
                /\ phases' = Append(phases, "rewrite")
                /\ UNCHANGED failure
    /\ UNCHANGED <<file_paths, base_dir, max_depth, result, xml_content, fs, fs0, first_run,
                   copied_paths, loop_i, copy_log, returned>>

\* lines 321-329
WriteXml ==
    /\ pc = "write"
    /\ LET written == write_file(fs, TransformedXmlPath, [xml |-> transformed_xml])
       IN  IF written.exc # "none"
           THEN Fail(written.exc) /\ UNCHANGED <<fs, returned, phases>>
           ELSE /\ fs' = written.fs
                /\ returned' = <<TransformedXmlPath, copied_paths>>
                /\ pc' = "done"
                /\ phases' = Append(phases, "done")
                /\ UNCHANGED failure
    /\ UNCHANGED <<file_paths, base_dir, max_depth, result, xml_content, fs0, first_run,
                   copied_paths, loop_i, transformed_xml, copy_log>>

\* lines 324-325, the operating system refusing the write
WriteXmlFails ==
    /\ pc = "write"
    /\ Fail("OSError")
    /\ UNCHANGED <<file_paths, base_dir, max_depth, result, xml_content, fs, fs0, first_run,
                   copied_paths, loop_i, transformed_xml, copy_log, phases, returned>>

(***************************************************************************)
(* The runs of create_asset_cache modelled                                 *)
(***************************************************************************)
\* the most elements of a document, and the largest max_depth, of the runs modelled
MaxElems == 3
MaxRunDepth == 1

\* the values of the file attribute of the root, and of the other elements
RootFiles == {None, S(<<"a", "x", "t">>)}
ElemFiles == {
    None,
    <<>>,
    S(<<"t">>),
    S(<<"a", "x", "t">>),
    S(<<"b", "x", "t">>),
    S(<<"", "s", "x", "t">>),
    S(<<"..", "t">>)
}
AssetDirs == {None, S(<<"assets">>)}

\* the nesting levels of the elements of a tree, in document order
Levels(n) ==
    {lv \in [1..n -> 0..(n - 1)] :
        /\ lv[1] = 0
        /\ \A i \in 2..n : lv[i] >= 1 /\ lv[i] <= lv[i - 1] + 1}

WellFormed(n) ==
    {[wellformed |-> TRUE,
      elems |-> [i \in 1..n |->
                    [level |-> lv[i], file |-> IF i = 1 THEN root ELSE f[i], name |-> i]]] :
        lv \in Levels(n),
        root \in RootFiles,
        f \in [2..n -> ElemFiles]}

Documents == {Malformed} \cup UNION {WellFormed(n) : n \in 1..MaxElems}

\* the file attribute values of a document that name a file
References(doc) ==
    {doc.elems[i].file : i \in 1..Len(doc.elems)} \ {None, <<>>}

\* the content of the source file at a path
Bytes(path) == [bytes_of |-> path]

\* a filesystem holding the source files at the paths of present
SourceFs(present) == [dirs |-> {}, files |-> [q \in present |-> Bytes(q)]]

\* the documents the runs start from: the elements below the root are siblings, or
\* each is the child of the one before
RunDocuments ==
    {doc \in Documents :
        \/ \A i \in 2..Len(doc.elems) : doc.elems[i].level = 1
        \/ \A i \in 2..Len(doc.elems) : doc.elems[i].level = i - 1}

Init ==
    /\ pc = "start"
    /\ xml_content \in RunDocuments
    /\ base_dir \in AssetDirs
    /\ max_depth \in {NoDepth} \cup (0..MaxRunDepth)
    /\ \E present \in SUBSET {SourcePath(r, base_dir) : r \in References(xml_content)} :
           /\ fs = SourceFs(present)
           /\ fs0 = SourceFs(present)
    /\ first_run = NoRun
    /\ file_paths = <<>>
    /\ result = NotCalled
    /\ copied_paths = <<>>
    /\ loop_i = 0
    /\ transformed_xml = Malformed
    /\ copy_log = <<>>
    /\ phases = <<>>
    /\ failure = "none"
    /\ returned = None

Next ==
    \/ MakeOutputDir
    \/ MakeOutputDirFails
    \/ Extract
    \/ Flatten
    \/ CopyItem
    \/ CopyItemFails
    \/ Transform
    \/ WriteXml
    \/ WriteXmlFails

Spec == Init /\ [][Next]_vars

(***************************************************************************)
(* create_asset_cache run a second time on the same document, with the     *)
(* same asset_dir and max_depth, into a destination emptied in between     *)
(***************************************************************************)
\* path is the destination directory or lies in it
UnderOutputDir(path) ==
    \/ path = PurePath(output_dir)
    \/ startswith(path, PurePath(output_dir) \o SLASH)

\* the rewritten document as it stands in the destination
WrittenXml == fs.files[TransformedXmlPath].xml

\* what a finished run produced: the files of the destination other than the
\* rewritten document with their bytes, the mapping returned, and the file values
\* of the rewritten document
Outcome ==
    <<{<<q, fs.files[q]>> : q \in {q \in DOMAIN fs.files :
                                      UnderOutputDir(q) /\ q # TransformedXmlPath}},
      returned[2],
      [i \in 1..Len(WrittenXml.elems) |-> WrittenXml.elems[i].file]>>

\* the first run is over; the destination directory is emptied and
\* create_asset_cache is called again with the same arguments
RunAgain ==
    /\ pc = "done"
    /\ first_run = NoRun
    /\ first_run' = Outcome
    /\ fs' = [dirs |-> {q \in fs.dirs : ~UnderOutputDir(q)} \cup Ancestors(PurePath(output_dir)),
              files |-> [q \in {q \in DOMAIN fs.files : ~UnderOutputDir(q)} |-> fs.files[q]]]
    /\ pc' = "start"
    /\ file_paths' = <<>>
    /\ result' = NotCalled
    /\ copied_paths' = <<>>
    /\ loop_i' = 0
    /\ transformed_xml' = Malformed
    /\ copy_log' = <<>>
    /\ phases' = <<>>
    /\ failure' = "none"
    /\ returned' = None
    /\ UNCHANGED <<base_dir, max_depth, xml_content, fs0>>

TwiceNext ==
    \/ MakeOutputDir
    \/ MakeOutputDirFails
    \/ Extract
    \/ Flatten
    \/ CopyItem
    \/ CopyItemFails
    \/ Transform
    \/ WriteXml
    \/ WriteXmlFails
    \/ RunAgain

\* the first run starts on a well-formed document whose references are those of
\* the elements below the root
TwiceInit ==
    /\ Init
    /\ xml_content.wellformed
    /\ xml_content.elems[1].file = None

TwiceSpec == TwiceInit /\ [][TwiceNext]_vars

(***************************************************************************)
(* create_asset_cache run a second time on the same document, with the     *)
(* same asset_dir and max_depth, on the destination as the first run left  *)
(* it                                                                      *)
(***************************************************************************)
\* the first run is over and create_asset_cache is called again with the same
\* arguments; the filesystem stays as it is
RunAgainInPlace ==
    /\ pc = "done"
    /\ first_run = NoRun
    /\ first_run' = Outcome
    /\ pc' = "start"
    /\ file_paths' = <<>>
    /\ result' = NotCalled
    /\ copied_paths' = <<>>
    /\ loop_i' = 0
    /\ transformed_xml' = Malformed
    /\ copy_log' = <<>>
    /\ phases' = <<>>
    /\ failure' = "none"
    /\ returned' = None
    /\ UNCHANGED <<base_dir, max_depth, xml_content, fs, fs0>>

RerunNext ==
    \/ MakeOutputDir
    \/ MakeOutputDirFails
    \/ Extract
    \/ Flatten
    \/ CopyItem
    \/ CopyItemFails
    \/ Transform
    \/ WriteXml
    \/ WriteXmlFails
    \/ RunAgainInPlace

RerunSpec == TwiceInit /\ [][RerunNext]_vars

(***************************************************************************)
(* Calls of flatten_paths on its own                                       *)
(***************************************************************************)
\* the longest file_paths, and the largest max_depth, of the calls modelled
MaxPaths == 2
MaxDepth == 4

\* the paths the calls draw from
FlatPool == {
    S(<<"t">>),
    <<"x", "_", "t">>,
    S(<<"x", "t">>),
    S(<<"a", "x", "t">>),
    S(<<"b", "x", "t">>),
    S(<<"assets", "x", "t">>),
    S(<<"assets", "a", "x", "t">>),
    S(<<"assets", "t">>),
    S(<<"assets", "", "tmp", "something.txt">>),
    S(<<"assets", "conflicts">>),
    S(<<"", "tmp", "something.txt">>),
    HAND_TIP,
    FOOT_TIP,
    S(<<"models", "robots", "arm", "joints", "t">>),
    S(<<"project", "assets", "textures", "t">>),
    S(<<"project", "models", "a", "x", "t">>)
}

BaseDirs == {None, S(<<"assets">>), S(<<"project">>)}

Lists(pool, n) == UNION {[1..k -> pool] : k \in 0..n}

EmptyFs == [dirs |-> {}, files |-> <<>>]

\* the variables of create_asset_cache, at rest
PipelineIdle ==
    /\ xml_content = Malformed
    /\ fs = EmptyFs
    /\ fs0 = EmptyFs
    /\ first_run = NoRun
    /\ copied_paths = <<>>
    /\ loop_i = 0
    /\ transformed_xml = Malformed
    /\ copy_log = <<>>
    /\ phases = <<>>
    /\ failure = "none"
    /\ returned = None

FlatInit ==
    /\ pc = "flatten_call"
    /\ file_paths \in Lists(FlatPool, MaxPaths)
    /\ base_dir \in BaseDirs
    /\ max_depth \in {Unset, NoDepth} \cup (0..MaxDepth)
    /\ result = NotCalled
    /\ PipelineIdle

\* flatten_paths(file_paths, base_dir, max_depth) removing the first path from the
\* list it was given
FlattenCall_ConsumesInput ==
    /\ pc = "flatten_call"
    /\ max_depth # Unset
    /\ result' = flatten_paths(file_paths, base_dir, max_depth)
    /\ file_paths' = IF file_paths = <<>> THEN <<>> ELSE Tail(file_paths)
    /\ pc' = "flatten_returned"
    /\ UNCHANGED <<base_dir, max_depth, pipeline_vars>>

\* flatten_paths(file_paths, base_dir, max_depth)
FlattenCall ==
    /\ pc = "flatten_call"
    /\ max_depth # Unset
    /\ result' = flatten_paths(file_paths, base_dir, max_depth)
    /\ pc' = "flatten_returned"
    /\ UNCHANGED <<file_paths, base_dir, max_depth, pipeline_vars>>

\* flatten_paths(file_paths, base_dir): max_depth takes its default (line 22)
FlattenCallDefault ==
    /\ pc = "flatten_call"
    /\ max_depth = Unset
    /\ result' = flatten_paths(file_paths, base_dir, DefaultMaxDepth)
    /\ pc' = "flatten_returned"
    /\ UNCHANGED <<file_paths, base_dir, max_depth, pipeline_vars>>

\* the same call made a second time, after the first returned; returned holds
\* what the second call returned
FlattenCallAgain ==
    /\ pc = "flatten_returned"
    /\ returned' = flatten_paths(file_paths, base_dir,
                                 IF max_depth = Unset THEN DefaultMaxDepth ELSE max_depth)
    /\ pc' = "flatten_twice"
    /\ UNCHANGED <<file_paths, base_dir, max_depth, result, xml_content, fs, fs0, first_run,
                   copied_paths, loop_i, transformed_xml, copy_log, phases, failure>>

FlatNext == FlattenCall \/ FlattenCallDefault \/ FlattenCallAgain

FlatSpec == FlatInit /\ [][FlatNext]_vars

(***************************************************************************)
(* Properties of flatten_paths, checked under FlatSpec                     *)
(***************************************************************************)
FlatReturned == pc = "flatten_returned"

PairwiseDistinct(list) ==
    \A i, j \in 1..Len(list) : i # j => list[i] # list[j]

\* a reference with base_dir + "/" taken from its front, as the specification words it
Stripped(r) ==
    IF base_dir # None /\ startswith(r, base_dir \o SLASH)
    THEN SubSeq(r, Len(base_dir) + 2, Len(r))
    ELSE r

\* C1: for pairwise distinct references, any base_dir and any depth (0 and N > 0),
\* the mapping returned gives distinct references distinct flattened names.
C1_Injective ==
    (FlatReturned /\ max_depth >= 0 /\ result.exc = "none" /\ PairwiseDistinct(file_paths))
        => \A i, j \in 1..Len(result.value) :
               i # j => result.value[i][2] # result.value[j][2]

\* C5: a call without max_depth returns the mapping that max_depth = 0 returns
\* (dir/.../parent/file becomes parent_file).
C5_UnsetIsDepthZero ==
    (FlatReturned /\ max_depth = Unset)
        => result = flatten_paths(file_paths, base_dir, 0)

\* C7: for any list, any base_dir and any depth that is a non-negative integer or
\* unset, the call returns a mapping and raises nothing.
C7_Total ==
    (FlatReturned /\ max_depth # NoDepth) => result.exc = "none"

\* the name C8 states: <immediate parent>_<filename>, or <filename> alone
C8Name(r) ==
    LET seg == split(Stripped(r))
        n == Len(seg)
    IN  IF n >= 2 THEN seg[n - 1] \o USCORE \o seg[n] ELSE seg[n]

\* C8: at depth 0, a reference whose candidate collides with no other reference's
\* candidate maps to <immediate parent>_<filename> when its path (base_dir stripped)
\* has a parent directory, and to <filename> otherwise.  References on the escape
\* list are left out: their passthrough is stated elsewhere.
C8_DepthZeroCandidate ==
    (FlatReturned /\ max_depth = 0 /\ result.exc = "none")
        => \A i \in 1..Len(result.value) :
               LET r == result.value[i][1]
                   alone == \A j \in 1..Len(result.value) :
                                j # i => C8Name(result.value[j][1]) # C8Name(r)
               IN  (r \notin special_paths /\ alone) => result.value[i][2] = C8Name(r)

\* the name C9 states at depth N: the last N directories and the filename, or the
\* path unchanged when it has at most N directories
C9Name(r, N) ==
    LET p == Stripped(r)
        seg == split(p)
        n == Len(seg)
    IN  IF n - 1 > N THEN join(SLASH, SubSeq(seg, n - N, n)) ELSE p

\* the initial flattened path the first pass gives a key of result
FirstName(r, N) == IF r \in special_paths THEN r ELSE Candidate(r, base_dir, N)

\* C9: at depth N > 0, a reference that is in no collision maps to the last N
\* directory segments plus filename of its path (base_dir stripped), joined by "/",
\* when the path has more than N directory segments, and to the path unchanged
\* otherwise, whatever the names of its segments.  References on the escape list
\* are left out.
C9_DepthNCandidate ==
    (FlatReturned /\ max_depth >= 1 /\ result.exc = "none")
        => \A i \in 1..Len(result.value) :
               LET r == result.value[i][1]
                   alone == \A j \in 1..Len(result.value) :
                                j # i =>
                                    /\ C9Name(result.value[j][1], max_depth) # C9Name(r, max_depth)
                                    /\ FirstName(result.value[j][1], max_depth) # FirstName(r, max_depth)
               IN  (r \notin special_paths /\ alone)
                       => result.value[i][2] = C9Name(r, max_depth)

(***************************************************************************)
(* Properties of create_asset_cache, checked under Spec                    *)
(***************************************************************************)
Done == pc = "done"
Extracted == \E k \in 1..Len(phases) : phases[k] = "extract"

\* the source of a reference was there when the run started
SourceExisted(r) == exists(fs0, SourcePath(r, base_dir))

\* C2: when the run finishes, for every extracted reference whose source file
\* exists, the effective mapping holds reference -> flattened name, and the file
\* destination/<flattened name> exists and holds the bytes of that reference's
\* own source file, also when the document holds several references.
C2_CopyIntegrity ==
    Done =>
        \A i \in 1..Len(file_paths) :
            LET r == file_paths[i]
                src == SourcePath(r, base_dir)
                dst == DestPath(DictGet(result.value, r))
            IN  src \in DOMAIN fs0.files =>
                    /\ DictHas(copied_paths, r)
                    /\ DictGet(copied_paths, r) = DictGet(result.value, r)
                    /\ dst \in DOMAIN fs.files
                    /\ fs.files[dst] = fs0.files[src]

\* C3: when the run finishes, every reference was processed; a reference whose
\* source does not exist had no file copied for it, stands in the effective mapping
\* as reference -> reference, and every element that carried it still carries it in
\* the rewritten document; an element from which a reference whose source exists
\* was extracted carries its flattened name.
C3_MissingPassthrough ==
    Done =>
        /\ DictKeys(copied_paths) = DictKeys(result.value)
        /\ \A k \in 1..Len(result.value) :
               LET r == result.value[k][1]
                   flattened == result.value[k][2]
               IN  /\ ~SourceExisted(r) =>
                          /\ DictGet(copied_paths, r) = r
                          /\ \A c \in 1..Len(copy_log) : copy_log[c][1] # r
                          /\ \A i \in 1..Len(xml_content.elems) :
                                 xml_content.elems[i].file = r => WrittenXml.elems[i].file = r
                   /\ SourceExisted(r) =>
                          \A i \in 2..Len(xml_content.elems) :
                              xml_content.elems[i].file = r
                                  => WrittenXml.elems[i].file = flattened

\* a finished run in which one reference was missing and another, which was found,
\* was rewritten to a new name
C3_Witness ==
    /\ Done
    /\ \E k, m \in 1..Len(result.value) :
           /\ ~SourceExisted(result.value[k][1])
           /\ SourceExisted(result.value[m][1])
           /\ result.value[m][2] # result.value[m][1]
           /\ \E c \in 1..Len(copy_log) : copy_log[c][1] = result.value[m][1]

\* C4 as stated: on a document that is not well-formed the run fails with a parse
\* error and has, at that moment, changed nothing in the filesystem: no destination
\* directory created, no file copied, no rewritten document written.
C4_NoMutationOnParseError ==
    (pc = "failed" /\ failure = "ParseError") => fs = fs0

\* C4 as amended: on a document that is not well-formed the run fails with a parse
\* error and has, at that moment, only created the destination directory (with its
\* missing parents): no file was copied and no rewritten document was written.
C4_OnlyOutputDirOnParseError ==
    (pc = "failed" /\ failure = "ParseError") =>
        /\ ~xml_content.wellformed
        /\ fs.files = fs0.files
        /\ fs.dirs = fs0.dirs \cup Ancestors(PurePath(output_dir))
        /\ copy_log = <<>>
        /\ TransformedXmlPath \notin DOMAIN fs.files

\* a run that failed with a parse error after creating the destination directory
C4_Witness ==
    /\ pc = "failed"
    /\ failure = "ParseError"
    /\ PurePath(output_dir) \in fs.dirs
    /\ PurePath(output_dir) \notin fs0.dirs

\* the exceptions that are filesystem errors
FilesystemErrors ==
    {"OSError", "FileExistsError", "NotADirectoryError", "IsADirectoryError", "SameFileError"}

\* C6: a run on a well-formed document in which no directory creation, copy or
\* write fails reaches Done, whatever the depth policy, base_dir and the assets;
\* that is, a run ends in Failed only through a parse error or a filesystem error.
C6_FailsOnlyByParseOrFilesystemError ==
    pc = "failed" => failure \in {"ParseError"} \cup FilesystemErrors

\* the file attribute values of every element that has one, in document order
AllFileValues(doc) ==
    LET order == InOrder({i \in 1..Len(doc.elems) : doc.elems[i].file # None}, Len(doc.elems))
    IN  [k \in 1..Len(order) |-> doc.elems[order[k]].file]

\* C10: for a well-formed document, extract_paths_from_xml returns one entry for
\* every element that carries a file attribute, the root included and whatever the
\* value, in document order, duplicates kept.
C10_ExtractsEveryFileAttribute ==
    Extracted => file_paths = AllFileValues(xml_content)

(***************************************************************************)
(* Calls of transform_xml_paths on its own.  xml_content holds xml_string, *)
(* copied_paths holds path_map and transformed_xml what the call returned. *)
(***************************************************************************)
\* the most entries of a path_map of the calls modelled
MaxMapLen == 2

\* the keys and the values the path_maps draw from
MapKeys == {<<>>, S(<<"t">>), S(<<"a", "x", "t">>)}
MapValues == {S(<<"t">>), <<"x", "_", "t">>}

\* the dicts of at most n entries: sequences of pairs with distinct keys
PathMaps(n) ==
    UNION {{m \in [1..k -> MapKeys \X MapValues] :
               \A i, j \in 1..k : i # j => m[i][1] # m[j][1]} : k \in 0..n}

XmlInit ==
    /\ pc = "xml_call"
    /\ xml_content \in Documents
    /\ copied_paths \in PathMaps(MaxMapLen)
    /\ file_paths = <<>>
    /\ base_dir = None
    /\ max_depth = 0
    /\ result = NotCalled
    /\ fs = EmptyFs
    /\ fs0 = EmptyFs
    /\ first_run = NoRun
    /\ loop_i = 0
    /\ transformed_xml = Malformed
    /\ copy_log = <<>>
    /\ phases = <<>>
    /\ failure = "none"
    /\ returned = None

\* transform_xml_paths(xml_content, copied_paths)
TransformCall ==
    /\ pc = "xml_call"
    /\ LET rewritten == transform_xml_paths(xml_content, copied_paths)
       IN  IF rewritten.exc # "none"
           THEN Fail(rewritten.exc) /\ UNCHANGED transformed_xml
           ELSE /\ transformed_xml' = rewritten.value
                /\ pc' = "xml_returned"
                /\ UNCHANGED failure
    /\ UNCHANGED <<file_paths, base_dir, max_depth, result, xml_content, fs, fs0, first_run,
                   copied_paths, loop_i, copy_log, phases, returned>>

XmlNext == TransformCall

XmlSpec == XmlInit /\ [][XmlNext]_vars

(***************************************************************************)
(* Properties of transform_xml_paths, checked under XmlSpec                *)
(***************************************************************************)
XmlReturned == pc = "xml_returned"

\* C11: transform_xml_paths replaces the file attribute of every element, the root
\* included, whose value is a key of the mapping by the value mapped to that
\* original value (a mapped value that is itself a key is not mapped again).
C11_RewritesEveryKeyedElement ==
    XmlReturned =>
        \A i \in 1..Len(xml_content.elems) :
            LET file_path == xml_content.elems[i].file
            IN  (file_path # None /\ DictHas(copied_paths, file_path))
                    => transformed_xml.elems[i].file = DictGet(copied_paths, file_path)

\* C12: transform_xml_paths keeps the elements, their order and nesting, every
\* attribute other than file, and every file attribute whose value is not a key
\* of the mapping; with the empty mapping no attribute value changes.
C12_ChangesOnlyKeyedFileValues ==
    XmlReturned =>
        /\ Len(transformed_xml.elems) = Len(xml_content.elems)
        /\ transformed_xml.wellformed
        /\ \A i \in 1..Len(xml_content.elems) :
               LET before == xml_content.elems[i]
                   after == transformed_xml.elems[i]
               IN  /\ after.level = before.level
                   /\ after.name = before.name
                   /\ (before.file = None \/ ~DictHas(copied_paths, before.file))
                          => after.file = before.file
        /\ copied_paths = <<>> => transformed_xml = xml_content

\* a call that rewrote one element and kept the file value of another, which is
\* not a key of the mapping
C12_Witness ==
    /\ XmlReturned
    /\ \E i, j \in 1..Len(xml_content.elems) :
           /\ transformed_xml.elems[i].file # xml_content.elems[i].file
           /\ xml_content.elems[j].file \notin {None, <<>>}
           /\ ~DictHas(copied_paths, xml_content.elems[j].file)
           /\ transformed_xml.elems[j].file = xml_content.elems[j].file

(***************************************************************************)
(* Further properties of create_asset_cache, checked under Spec            *)
(***************************************************************************)
\* where the source of a reference is to be looked for: the reference itself when
\* absolute, else under base_dir when there is one, else next to the document
ExpectedSource(r) ==
    IF r[1] = "/" THEN r
    ELSE IF base_dir # None THEN base_dir \o <<"/">> \o r
    ELSE <<"/", "w", "/">> \o r

\* C13: every file copied was read from the reference itself when the reference is
\* absolute, else from base_dir joined with it when base_dir was supplied, else
\* from the directory of the document joined with it; and when the run finishes
\* the references copied are those with a file at that location.
C13_SourceResolution ==
    /\ \A c \in 1..Len(copy_log) :
           /\ copy_log[c][2] = ExpectedSource(copy_log[c][1])
           /\ fs.files[copy_log[c][3]] \in
                  {fs0.files[ExpectedSource(copy_log[d][1])] : d \in c..Len(copy_log)}
    /\ Done =>
           \A k \in 1..Len(result.value) :
               LET r == result.value[k][1]
               IN  (\E c \in 1..Len(copy_log) : copy_log[c][1] = r)
                       <=> ExpectedSource(r) \in DOMAIN fs0.files

\* a finished run with base_dir supplied that copied an absolute reference and a
\* relative one
C13_Witness ==
    /\ Done
    /\ base_dir # None
    /\ \E c, d \in 1..Len(copy_log) :
           /\ copy_log[c][1][1] = "/"
           /\ copy_log[d][1][1] # "/"

\* the files of the destination that hold a document
WrittenDocuments ==
    {q \in DOMAIN fs.files : "xml" \in DOMAIN fs.files[q]}

\* C14: a successful run writes exactly one rewritten document, at
\* destination/transformed_<filename of the source document>, returns that path,
\* and in that document every file attribute whose original value is an extracted
\* reference r has the value effective_mapping[r].
C14_OneRewrittenDocument ==
    Done =>
        /\ WrittenDocuments = {<<"/", "cache", "/", "scene", "/", "transformed", "_", "scene.xml">>}
        /\ returned[1] = <<"/", "cache", "/", "scene", "/", "transformed", "_", "scene.xml">>
        /\ \A i \in 1..Len(xml_content.elems) :
               LET r == xml_content.elems[i].file
               IN  in_list(r, file_paths) => WrittenXml.elems[i].file = DictGet(copied_paths, r)

\* the run failed in the copy loop: after flatten_paths returned, before the rewrite
FailedAtCopy ==
    /\ pc = "failed"
    /\ in_list("flatten", phases)
    /\ ~in_list("rewrite", phases)

\* the last copy made to the destination of the c-th copy
LastCopyTo(c) ==
    CHOOSE d \in c..Len(copy_log) :
        /\ copy_log[d][3] = copy_log[c][3]
        /\ \A e \in (d + 1)..Len(copy_log) : copy_log[e][3] # copy_log[c][3]

\* C15: when making a destination subdirectory or copying a file fails, the run
\* ends there with a filesystem error: the reference at which it failed and the
\* later ones are not copied, no rewritten document is written, nothing is
\* returned, every file copied before is still in the destination with the bytes
\* copied to it, and the run takes no further step.
C15_NoRollback ==
    /\ [](FailedAtCopy =>
            /\ failure \in FilesystemErrors
            /\ loop_i <= Len(result.value)
            /\ Len(copied_paths) = loop_i - 1
            /\ \A c \in 1..Len(copy_log) :
                   /\ \E k \in 1..(loop_i - 1) : result.value[k][1] = copy_log[c][1]
                   /\ copy_log[c][3] \in DOMAIN fs.files
                   /\ fs.files[copy_log[c][3]] = fs0.files[copy_log[LastCopyTo(c)][2]]
            /\ WrittenDocuments = {}
            /\ returned = None)
    /\ [][~FailedAtCopy]_vars

\* a run that failed at its second reference after copying the first
C15_Witness ==
    /\ FailedAtCopy
    /\ loop_i = 2
    /\ Len(copy_log) = 1
    /\ copy_log[1][3] \in DOMAIN fs.files

(***************************************************************************)
(* Further properties of flatten_paths, checked under FlatSpec             *)
(***************************************************************************)
\* C16: in every mapping flatten_paths returns, for any base_dir and depth, every
\* reference that contains no '/' maps to itself, also among references with
\* directories and in a collision.
C16_FlatFixedPoint ==
    FlatReturned =>
        \A i \in 1..Len(result.value) :
            LET r == result.value[i][1]
            IN  (\A k \in 1..Len(r) : r[k] # "/") => result.value[i][2] = r

\* the depth the call was made with
CalledDepth == IF max_depth = Unset THEN DefaultMaxDepth ELSE max_depth

\* flatten_paths returned a mapping
FlatMapped == FlatReturned /\ result.exc = "none"

\* a mapping in which a flat reference stands next to a reference with directories
\* whose depth-0 candidate is that flat reference
C16_Witness ==
    /\ FlatMapped
    /\ max_depth = 0
    /\ \E i, j \in 1..Len(result.value) :
           /\ \A k \in 1..Len(result.value[i][1]) : result.value[i][1][k] # "/"
           /\ \E k \in 1..Len(result.value[j][1]) : result.value[j][1][k] = "/"
           /\ Candidate(result.value[j][1], base_dir, 0) = result.value[i][1]
           /\ result.value[i][2] = result.value[i][1]

\* C17: the keys of the mapping flatten_paths returns are exactly the distinct
\* input references: every input is a key, a repeated input is one key, there is
\* no other key; for the empty input the mapping is empty.
C17_KeysAreDistinctInputs ==
    FlatMapped =>
        /\ DictKeys(result.value) = {file_paths[i] : i \in 1..Len(file_paths)}
        /\ \A i, j \in 1..Len(result.value) :
               i # j => result.value[i][1] # result.value[j][1]
        /\ file_paths = <<>> => result.value = <<>>

\* a mapping returned for an input that repeats a reference with directories
C17_Witness ==
    /\ FlatMapped
    /\ Len(file_paths) = 2
    /\ file_paths[1] = file_paths[2]
    /\ \E k \in 1..Len(file_paths[1]) : file_paths[1][k] = "/"
    /\ Len(result.value) = 1

\* C18: a reference on the escape list (/tmp/something.txt) maps to itself in the
\* mapping flatten_paths returns, for every depth and base_dir and whatever the
\* other references, including one whose candidate collides with it.
C18_EscapeListPassthrough ==
    FlatMapped =>
        \A i \in 1..Len(result.value) :
            result.value[i][1] = <<"/", "tmp", "/", "something.txt">>
                => result.value[i][2] = <<"/", "tmp", "/", "something.txt">>

\* a mapping in which the escaped path stands next to another reference whose
\* candidate is that path
C18_Witness ==
    /\ FlatMapped
    /\ CalledDepth >= 1
    /\ \E i, j \in 1..Len(result.value) :
           /\ result.value[i][1] = <<"/", "tmp", "/", "something.txt">>
           /\ result.value[j][1] # result.value[i][1]
           /\ Candidate(result.value[j][1], base_dir, CalledDepth) = result.value[i][1]
           /\ result.value[i][2] = result.value[i][1]

C20_SecondRunSameOutcome ==
    (Done /\ first_run # NoRun) => Outcome = first_run

\* two finished runs that each copied two files
C20_Witness ==
    /\ Done
    /\ first_run # NoRun
    /\ Len(copy_log) = 2
    /\ copy_log[1][3] # copy_log[2][3]
    /\ Outcome = first_run

(***************************************************************************)
(* Order, destinations and writes of create_asset_cache, checked under Spec *)
(***************************************************************************)
\* the phases completed so far follow the order mkdir, extract, flatten, one copy
\* step per reference, rewrite, done
PhasesInOrder ==
    \A k \in 1..Len(phases) :
        /\ phases[k] = "mkdir" <=> k = 1
        /\ phases[k] = "extract" <=> k = 2
        /\ phases[k] = "flatten" <=> k = 3
        /\ phases[k] \in {"copy", "rewrite"} => (k > 3 /\ phases[k - 1] \in {"flatten", "copy"})
        /\ phases[k] = "done" => (k > 4 /\ phases[k - 1] = "rewrite")

\* C21: in every run the steps happen in the order create destination directory,
\* extract, flatten, resolve-and-copy, rewrite, done; a run fails only from a step
\* before done; and the rewrite does not start before the copied/missing decision
\* of every extracted reference stands in the effective mapping.
C21_PhaseOrder ==
    /\ PhasesInOrder
    /\ pc = "done" <=> (phases # <<>> /\ phases[Len(phases)] = "done")
    /\ pc = "failed" => (failure # "none" /\ ~in_list("done", phases))
    /\ in_list("rewrite", phases) =>
           /\ \A i \in 1..Len(file_paths) : DictHas(copied_paths, file_paths[i])
           /\ Len(SelectSeq(phases, LAMBDA ph : ph = "copy")) = Len(result.value)
           /\ Len(copied_paths) = Len(result.value)

\* a finished run that went through every phase, copying one reference and finding
\* another missing
C21_Witness ==
    /\ Done
    /\ Len(phases) = 7
    /\ Len(copy_log) = 1
    /\ Len(copied_paths) = 2

\* C22: in one run, the copy steps of any two distinct references whose sources
\* exist write to different destination paths (so that the order of the copy steps
\* does not matter for the destination's contents).
C22_DistinctDestinations ==
    \A c, d \in 1..Len(copy_log) :
        copy_log[c][1] # copy_log[d][1] => copy_log[c][3] # copy_log[d][3]

(***************************************************************************)
(* Collision resolution and base_dir in flatten_paths, checked under       *)
(* FlatSpec                                                                *)
(***************************************************************************)
\* the number of path segments a name is made of
Segments(name) == Len(SelectSeq(name, LAMBDA tok : tok # "/" /\ tok # "_"))

\* C23: within a group of references whose initial candidates are identical, a
\* member that comes earlier in the input ends with a name of no more path
\* segments than a member that comes later.
C23_FirstKeepsShortest ==
    (FlatMapped /\ CalledDepth >= 0) =>
        \A i, j \in 1..Len(result.value) :
            (/\ i < j
             /\ FirstName(result.value[i][1], CalledDepth)
                    = FirstName(result.value[j][1], CalledDepth))
                => Segments(result.value[i][2]) <= Segments(result.value[j][2])

\* C24: for a list of references that all start with base_dir + "/" and are
\* pairwise distinct, flatten_paths with base_dir gives each reference the name
\* that flatten_paths without base_dir gives its stripped form in the list of the
\* stripped references, at every depth, collisions included.  Stated here for
\* references that are neither on the escape list once stripped nor under
\* project/models/.
C24_BaseDirStripping ==
    (/\ FlatMapped
     /\ CalledDepth >= 0
     /\ base_dir # None
     /\ PairwiseDistinct(file_paths)
     /\ \A i \in 1..Len(file_paths) :
            /\ startswith(file_paths[i], base_dir \o SLASH)
            /\ Stripped(file_paths[i]) \notin special_paths
            /\ ~contains(file_paths[i], S(<<"project", "models", "">>)))
        => LET stripped == [i \in 1..Len(file_paths) |-> Stripped(file_paths[i])]
               other == flatten_paths(stripped, None, CalledDepth)
           IN  /\ other.exc = "none"
               /\ \A i \in 1..Len(file_paths) :
                      DictGet(result.value, file_paths[i]) = DictGet(other.value, stripped[i])

(***************************************************************************)
(* Where create_asset_cache writes, checked under Spec                     *)
(***************************************************************************)
\* path lies in the destination directory and does not leave it through ".."
InsideOutputDir(path) ==
    /\ SubSeq(path, 1, 5) = <<"/", "cache", "/", "scene", "/">>
    /\ \A k \in 1..Len(split(path)) : split(path)[k] # <<"..">>

\* C25: every path created or written in a run lies under the destination
\* directory: no flattened name used as a copy destination is absolute or leaves
\* the destination through a ".." segment, and no file outside the destination
\* is created or changed.
C25_WritesStayInside ==
    /\ \A c \in 1..Len(copy_log) :
           LET flattened_path == DictGet(result.value, copy_log[c][1])
           IN  /\ flattened_path[1] # "/"
               /\ \A k \in 1..Len(split(flattened_path)) : split(flattened_path)[k] # <<"..">>
               /\ InsideOutputDir(copy_log[c][3])
    /\ \A q \in DOMAIN fs.files :
           IF q \in DOMAIN fs0.files THEN fs.files[q] = fs0.files[q] ELSE InsideOutputDir(q)

(***************************************************************************)
(* Properties of a run repeated in place, checked under RerunSpec          *)
(***************************************************************************)
\* C26: a second run of create_asset_cache with the same document, sources,
\* asset_dir and max_depth, on the destination a first successful run left, fails
\* only when the operating system refuses a step (directories and files already
\* there are no error); when it finishes the destination holds the same files with
\* the same contents, and the path and the mapping returned are the same.
C26_RerunIdempotent ==
    first_run # NoRun =>
        /\ pc = "failed" => failure = "OSError"
        /\ Done =>
               /\ Outcome = first_run
               /\ returned[1] = TransformedXmlPath
               /\ TransformedXmlPath \in DOMAIN fs.files

\* a second run, finished, that copied two files onto those of the first
C26_Witness ==
    /\ Done
    /\ first_run # NoRun
    /\ Len(copy_log) = 2
    /\ copy_log[1][3] # copy_log[2][3]
    /\ Outcome = first_run
    /\ Cardinality(first_run[1]) = 2

====
